---- MODULE Spec2Model ----
(***************************************************************************)
(* A model of io_xplane2blender:                                           *)
(*   - xplane_helpers.XPlaneLogger  (transports, messages, dispatch)       *)
(*   - xplane_helpers.VerStruct.cmp (three-way version comparison)         *)
(*   - xplane_249_material_converter (_get_tf_modes_from_ctypes,           *)
(*     _convert_material, convert_materials)                               *)
(* Each part has its own specification; the variables of the other parts   *)
(* are held at their initial value.                                        *)
(***************************************************************************)
EXTENDS Integers, Sequences, FiniteSets, TLC

VARIABLES
    transports,   \* XPlaneLogger.transports: list of {'fn', 'types'}
    messages,     \* XPlaneLogger.messages: list of {'type','message','context'}
    calls,        \* the invocations transport['fn'](type, message, context) made by
                  \* the most recent log call, in order
    lhs,          \* VerStruct.cmp: first argument
    rhs,          \* VerStruct.cmp: second argument
    include_data_model_version,
    include_build_number,
    cmp_out,      \* VerStruct.cmp: outcome (a value, or the raised exception)
    tf_mesh,      \* _get_tf_modes_from_ctypes: the polygons read through ctypes
    tf_out,       \* _get_tf_modes_from_ctypes: the returned dictionary
    bpy,          \* convert_materials: the host data (objects, meshes, materials)
    args,         \* convert_materials: workflow_type and root_object
    cm_out,       \* convert_materials: outcome of the call
    conv_args,    \* _convert_material: the arguments of the call
    conv_out,     \* _convert_material: the new material and what the call did
    runs,         \* xplane_249_convert._runs
    converted_objects,  \* xplane_249_convert._converted_objects
    scenes,       \* do_249_conversion: bpy.data.scenes
    context_scene,      \* bpy.context.window.screen.scene, as a position in scenes
    do_workflow_type,   \* do_249_conversion: workflow_type of the most recent call
    layer_props_calls,  \* the calls of do_convert_layer_properties made by the
                        \* most recent call of do_249_conversion, in order
    do_out        \* do_249_conversion: outcome of the most recent call

loggerVars == <<transports, messages, calls>>
cmpVars == <<lhs, rhs, include_data_model_version, include_build_number, cmp_out>>
tfVars == <<tf_mesh, tf_out>>
cmVars == <<bpy, args, cm_out>>
convVars == <<conv_args, conv_out>>
doVars == <<runs, converted_objects, scenes, context_scene, do_workflow_type,
           layer_props_calls, do_out>>
vars == <<transports, messages, calls, lhs, rhs, include_data_model_version,
          include_build_number, cmp_out, tf_mesh, tf_out, bpy, args, cm_out,
          conv_args, conv_out, runs, converted_objects, scenes, context_scene,
          do_workflow_type, layer_props_calls, do_out>>

Range(s) == {s[i] : i \in 1..Len(s)}

None == "None"

(***************************************************************************)
(* Initial values of each part                                             *)
(***************************************************************************)
NotCalled == [status |-> "not_called"]

(***************************************************************************)
(* XPlaneLogger                                                            *)
(***************************************************************************)
MaxTransports == 2
MaxMessages == 2

MessageTypes == {"error", "warning", "info", "success"}

\* the default value of addTransport's messageTypes parameter
DefaultMessageTypes == <<"error", "warning", "info", "success">>

\* the sinks: ConsoleTransport, FileTransport, InternalTextTransport
TransportFns == {"console", "file"}

\* the types lists addTransport is called with
TypesLists == {DefaultMessageTypes, <<"warning", "info">>}

\* (message, context) pairs the log calls are made with
Payloads == {<<"m1", None>>, <<"m2", "ctx">>}

\* XPlaneLogger.__init__
XPlaneLogger_init ==
    /\ transports = <<>>
    /\ messages = <<>>
    /\ calls = <<>>
    /\ lhs = None
    /\ rhs = None
    /\ include_data_model_version = FALSE
    /\ include_build_number = FALSE
    /\ cmp_out = NotCalled
    /\ tf_mesh = None
    /\ tf_out = NotCalled
    /\ bpy = None
    /\ args = None
    /\ cm_out = NotCalled
    /\ conv_args = None
    /\ conv_out = NotCalled
    /\ runs = 0
    /\ converted_objects = {}
    /\ scenes = <<>>
    /\ context_scene = 0
    /\ do_workflow_type = None
    /\ layer_props_calls = <<>>
    /\ do_out = NotCalled

\* XPlaneLogger.addTransport
addTransport(transport, messageTypes) ==
    /\ Len(transports) < MaxTransports
    /\ transports' = Append(transports, [fn |-> transport, types |-> messageTypes])
    /\ UNCHANGED <<messages, calls, cmpVars, tfVars, cmVars, convVars, doVars>>

\* XPlaneLogger.clearTransports
clearTransports ==
    /\ transports' = <<>>
    /\ UNCHANGED <<messages, calls, cmpVars, tfVars, cmVars, convVars, doVars>>

clearMessages_AlsoTransports ==
    /\ messages' = <<>>
    /\ transports' = <<>>
    /\ UNCHANGED <<calls, cmpVars, tfVars, cmVars, convVars, doVars>>

\* XPlaneLogger.clearMessages
clearMessages ==
    /\ messages' = <<>>
    /\ UNCHANGED <<transports, calls, cmpVars, tfVars, cmVars, convVars, doVars>>

TypeInTypes_NoFilter(messageType, types) == TRUE

\* messageType in transport['types']
TypeInTypes(messageType, types) == messageType \in Range(types)

\* the loop "for transport in self.transports" of XPlaneLogger.log, from index i
RECURSIVE Dispatch(_, _, _, _, _, _)
Dispatch(ts, i, messageType, message, context, done) ==
    IF i > Len(ts) THEN done
    ELSE Dispatch(ts, i + 1, messageType, message, context,
                  IF TypeInTypes(messageType, ts[i].types)
                  THEN Append(done, [fn |-> ts[i].fn, type |-> messageType,
                                     message |-> message, context |-> context])
                  ELSE done)

\* XPlaneLogger.log
log(messageType, message, context) ==
    LET made == Dispatch(transports, 1, messageType, message, context, <<>>)
    IN /\ Len(messages) < MaxMessages
       /\ messages' = Append(messages, [type |-> messageType, message |-> message,
                                        context |-> context])
       /\ calls' = made
       /\ UNCHANGED <<transports, cmpVars, tfVars, cmVars, convVars, doVars>>

\* XPlaneLogger.error
error(message, context) == log("error", message, context)

\* XPlaneLogger.warn
warn(message, context) == log("warning", message, context)

\* XPlaneLogger.info
info(message, context) == log("info", message, context)

\* XPlaneLogger.success
success(message, context) == log("success", message, context)

\* XPlaneLogger.findOfType
findOfType(messageType) == SelectSeq(messages, LAMBDA m : m.type = messageType)

\* XPlaneLogger.hasOfType
hasOfType(messageType) == \E i \in 1..Len(messages) : messages[i].type = messageType

AddTransportStep ==
    \E fn \in TransportFns, types \in TypesLists : addTransport(fn, types)

LogStep ==
    \E t \in MessageTypes, p \in Payloads : log(t, p[1], p[2])

ErrorStep == \E p \in Payloads : error(p[1], p[2])

WarnStep == \E p \in Payloads : warn(p[1], p[2])

InfoStep == \E p \in Payloads : info(p[1], p[2])

SuccessStep == \E p \in Payloads : success(p[1], p[2])

LoggerNext ==
    \/ AddTransportStep
    \/ clearTransports
    \/ clearMessages
    \/ LogStep
    \/ ErrorStep
    \/ WarnStep
    \/ InfoStep
    \/ SuccessStep

SpecLogger == XPlaneLogger_init /\ [][LoggerNext]_vars

\* the transports a record of this type is handed to, as indices into ts
Matching(ts, messageType) == {i \in 1..Len(ts) : messageType \in Range(ts[i].types)}

\* made is one call per transport of ts whose types list has the type, in list order
IsDispatchOf(made, ts, rec) ==
    \E f \in [1..Len(made) -> 1..Len(ts)] :
        /\ \A j, k \in 1..Len(made) : j < k => f[j] < f[k]
        /\ {f[j] : j \in 1..Len(made)} = Matching(ts, rec.type)
        /\ \A j \in 1..Len(made) :
              made[j] = [fn |-> ts[f[j]].fn, type |-> rec.type,
                         message |-> rec.message, context |-> rec.context]

\* C1: a log call invokes exactly the transports registered at that moment whose
\* types list contains the message type, once each, in registration order, with
\* the logged (type, message, context); no other step (registering or clearing
\* transports, clearing messages) invokes any transport.
C1_Dispatch ==
    [][ IF Len(messages') = Len(messages) + 1
        THEN IsDispatchOf(calls', transports, messages'[Len(messages')])
        ELSE calls' = calls ]_vars

\* a log reached the second-registered transport only: the first does not list
\* the type
C1_Witness ==
    /\ Len(transports) = 2
    /\ Len(messages) = 1
    /\ Len(calls) = 1
    /\ messages[1].type \notin Range(transports[1].types)
    /\ calls[1] = [fn |-> transports[2].fn, type |-> messages[1].type,
                   message |-> messages[1].message, context |-> messages[1].context]

\* found is the records of msgs whose type is messageType, each once, in the
\* order they have in msgs
IsSubseqOfType(found, msgs, messageType) ==
    \E f \in [1..Len(found) -> 1..Len(msgs)] :
        /\ \A j, k \in 1..Len(found) : j < k => f[j] < f[k]
        /\ {f[j] : j \in 1..Len(found)} =
               {i \in 1..Len(msgs) : msgs[i].type = messageType}
        /\ \A j \in 1..Len(found) : found[j] = msgs[f[j]]

\* the types a record can be looked up by: the four logged ones and one that is
\* never logged
LookupTypes == MessageTypes \cup {"warn"}

\* the buffer after one step: emptied with the transports untouched
\* (clearMessages), untouched (addTransport, clearTransports), or grown at the
\* end by one record of a logged type with the transports untouched (log and the
\* four shorthands, with or without transports)
BufferStep ==
    \/ /\ messages' = <<>>
       /\ messages # <<>>
       /\ transports' = transports
    \/ messages' = messages
    \/ /\ Len(messages') = Len(messages) + 1
       /\ SubSeq(messages', 1, Len(messages)) = messages
       /\ messages'[Len(messages')].type \in MessageTypes
       /\ transports' = transports

\* C14: messages is the ordered list of the records logged since the last
\* clearMessages, whether or not a transport is registered: a step empties it,
\* leaves it alone, or appends one record; a warn record has type 'warning';
\* clearMessages leaves transports unchanged and a step that changes transports
\* leaves messages unchanged. At every moment findOfType(t) is the records of
\* type t in buffer order and hasOfType(t) holds exactly when it is non-empty.
C14_Buffer ==
    /\ [][BufferStep]_vars
    /\ [][WarnStep => messages'[Len(messages')].type = "warning"]_vars
    /\ [][transports' # transports => messages' = messages]_vars
    /\ [](\A t \in LookupTypes :
            /\ IsSubseqOfType(findOfType(t), messages, t)
            /\ hasOfType(t) <=> (findOfType(t) # <<>>))

\* two records were logged, the second reached a transport, and the transports
\* were cleared afterwards: the buffer still holds both, and a lookup by
\* 'warning' finds the first only
C14_Witness ==
    /\ transports = <<>>
    /\ calls # <<>>
    /\ Len(messages) = 2
    /\ messages[1].type = "warning"
    /\ messages[2].type = "info"
    /\ findOfType("warning") = <<messages[1]>>
    /\ hasOfType("warning")
    /\ ~hasOfType("warn")

(***************************************************************************)
(* VerStruct.cmp                                                           *)
(***************************************************************************)
\* xplane_constants.BUILD_TYPES, in list order
BUILD_TYPES == <<"dev", "alpha", "beta", "leg", "rc">>

\* xplane_constants.BUILD_NUMBER_NONE
BUILD_NUMBER_NONE == "NO_BUILD_NUMBR"

\* the build numbers the structs are made with; a build stamp is 14 digits
BuildNumbers == <<"20170906154330", BUILD_NUMBER_NONE>>

\* addon_version tuples (major, minor, revision)
AddonVersions == {<<3, 4, 0>>, <<3, 4, 1>>, <<3, 5, 0>>}

\* VerStruct.__init__: the five members
VerStructs ==
    [addon_version : AddonVersions,
     build_type : Range(BUILD_TYPES),
     build_type_version : 0..2,
     data_model_version : 0..1,
     build_number : Range(BuildNumbers)]

\* list.index(x) of a list that holds x
ListIndex(list, x) == CHOOSE i \in 1..Len(list) : list[i] = x /\ \A j \in 1..(i - 1) : list[j] # x

\* Python's tuple comparison a < b: the first differing element decides, then the length
TupleLt(a, b) ==
    \/ \E i \in 1..Len(a) :
          /\ i <= Len(b)
          /\ a[i] < b[i]
          /\ \A j \in 1..(i - 1) : a[j] = b[j]
    \/ /\ Len(a) < Len(b)
       /\ \A j \in 1..Len(a) : a[j] = b[j]

\* Python's tuple comparison a <= b
TupleLe(a, b) == a = b \/ TupleLt(a, b)

\* Python's str comparison a < b on the build numbers: '2' < 'N'
StrLt(a, b) == ListIndex(BuildNumbers, a) < ListIndex(BuildNumbers, b)

Returned(v) == [status |-> "returned", value |-> v]

Raised(e) == [status |-> "raised", exception |-> e]

\* a block of VerStruct.cmp that returns nothing ("pass #Move on to ...")
MoveOn == [status |-> "pass"]

\* the first block of VerStruct.cmp (equality): the value returned, or MoveOn
CmpEqBlock(l, r, incl_dm, incl_bn) ==
    IF l.addon_version = r.addon_version
       /\ l.build_type = r.build_type
       /\ l.build_type_version = r.build_type_version
    THEN LET is_data_model_eq == l.data_model_version = r.data_model_version
             is_build_num_eq == l.build_number = r.build_number
         IN IF incl_dm /\ is_data_model_eq /\ incl_bn /\ is_build_num_eq THEN Returned(0)
            ELSE IF incl_dm /\ is_data_model_eq THEN Returned(0)
            ELSE IF incl_bn /\ is_build_num_eq THEN Returned(0)
            ELSE Returned(0)
    ELSE MoveOn

\* the second block of VerStruct.cmp (less than)
CmpLtBlock(l, r, incl_dm, incl_bn) ==
    IF TupleLe(l.addon_version, r.addon_version)
       /\ ListIndex(BUILD_TYPES, l.build_type) <= ListIndex(BUILD_TYPES, r.build_type)
       /\ l.build_type_version <= r.build_type_version
    THEN LET is_data_model_lt == l.data_model_version < r.data_model_version
             is_build_num_lt == StrLt(l.build_number, r.build_number)
         IN IF incl_dm /\ is_data_model_lt /\ incl_bn /\ is_build_num_lt THEN Returned(-1)
            ELSE IF incl_dm /\ is_data_model_lt THEN Returned(-1)
            ELSE IF incl_bn /\ is_build_num_lt THEN Returned(-1)
            ELSE Returned(-1)
    ELSE MoveOn

\* the third block of VerStruct.cmp (greater than)
CmpGtBlock(l, r, incl_dm, incl_bn) ==
    IF TupleLe(r.addon_version, l.addon_version)
       /\ ListIndex(BUILD_TYPES, l.build_type) >= ListIndex(BUILD_TYPES, r.build_type)
       /\ l.build_type_version >= r.build_type_version
    THEN LET is_data_model_gt == l.data_model_version > r.data_model_version
             is_build_num_gt == StrLt(r.build_number, l.build_number)
         IN IF incl_dm /\ is_data_model_gt /\ incl_bn /\ is_build_num_gt THEN Returned(1)
            ELSE IF incl_dm /\ is_data_model_gt THEN Returned(1)
            ELSE IF incl_bn /\ is_build_num_gt THEN Returned(1)
            ELSE Returned(1)
    ELSE MoveOn

\* VerStruct.cmp
VerStruct_cmp(l, r, incl_dm, incl_bn) ==
    IF CmpEqBlock(l, r, incl_dm, incl_bn) # MoveOn
    THEN CmpEqBlock(l, r, incl_dm, incl_bn)
    ELSE IF CmpLtBlock(l, r, incl_dm, incl_bn) # MoveOn
    THEN CmpLtBlock(l, r, incl_dm, incl_bn)
    ELSE IF CmpGtBlock(l, r, incl_dm, incl_bn) # MoveOn
    THEN CmpGtBlock(l, r, incl_dm, incl_bn)
    ELSE Raised("cmp function not implemented properly")

\* the arguments of one call of VerStruct.cmp
CmpInit ==
    /\ lhs \in VerStructs
    /\ rhs \in VerStructs
    /\ include_data_model_version \in BOOLEAN
    /\ include_build_number \in BOOLEAN
    /\ cmp_out = NotCalled
    /\ transports = <<>>
    /\ messages = <<>>
    /\ calls = <<>>
    /\ tf_mesh = None
    /\ tf_out = NotCalled
    /\ bpy = None
    /\ args = None
    /\ cm_out = NotCalled
    /\ conv_args = None
    /\ conv_out = NotCalled
    /\ runs = 0
    /\ converted_objects = {}
    /\ scenes = <<>>
    /\ context_scene = 0
    /\ do_workflow_type = None
    /\ layer_props_calls = <<>>
    /\ do_out = NotCalled

\* the call VerStruct.cmp(lhs, rhs, include_data_model_version, include_build_number)
CallCmp ==
    /\ cmp_out = NotCalled
    /\ cmp_out' = VerStruct_cmp(lhs, rhs, include_data_model_version, include_build_number)
    /\ UNCHANGED <<lhs, rhs, include_data_model_version, include_build_number,
                   loggerVars, tfVars, cmVars, convVars, doVars>>

CmpNext == CallCmp

SpecCmp == CmpInit /\ [][CmpNext]_vars

\* the order of versions: addon version, then build type, then build type version
VersionKey(v) == <<v.addon_version[1], v.addon_version[2], v.addon_version[3],
                   ListIndex(BUILD_TYPES, v.build_type), v.build_type_version>>

\* -1 for l < r, 0 for l == r, 1 for l > r
ThreeWay(l, r) ==
    IF VersionKey(l) = VersionKey(r) THEN 0
    ELSE IF TupleLt(VersionKey(l), VersionKey(r)) THEN -1 ELSE 1

\* C10: VerStruct.cmp is a total three-way comparison: on every pair of VerStructs
\* with build types in BUILD_TYPES it returns, without raising, -1 for lhs < rhs,
\* 0 for lhs == rhs and 1 for lhs > rhs, and cmp(lhs, rhs) = -cmp(rhs, lhs).
C10_TotalThreeWay ==
    cmp_out # NotCalled =>
        LET back == VerStruct_cmp(rhs, lhs, include_data_model_version,
                                  include_build_number)
        IN /\ cmp_out.status = "returned"
           /\ cmp_out.value = ThreeWay(lhs, rhs)
           /\ back.status = "returned"
           /\ cmp_out.value = -back.value

(***************************************************************************)
(* _get_tf_modes_from_ctypes                                               *)
(***************************************************************************)
MaxPolys == 3

\* MTexPoly.mode values (c_short): 3 has bit 1, which is no button; -32767 has bit 15
TfModeValues == {0, 1, 3, 1029, 8848, -32767}

\* MTexPoly.transp values (one byte): 1 has bit 0, which is no button
TfTranspValues == {0, 1, 2, 4}

\* bool(value & (1 << bit))
BitSet(value, bit) == (value \div (2 ^ bit)) % 2 = 1

\* int.from_bytes(mtpoly_current.transp, sys.byteorder) of a one-byte value
IntFromByte(b) == b % 256

TexFaceModes_AlphaBit0(mtpoly_mode, mtpoly_transp) ==
    [TEX       |-> BitSet(mtpoly_mode, 2),
     TILES     |-> BitSet(mtpoly_mode, 7),
     LIGHT     |-> BitSet(mtpoly_mode, 4),
     INVISIBLE |-> BitSet(mtpoly_mode, 10),
     DYNAMIC   |-> BitSet(mtpoly_mode, 0),
     TWOSIDE   |-> BitSet(mtpoly_mode, 9),
     SHADOW    |-> BitSet(mtpoly_mode, 13),
     ALPHA     |-> BitSet(mtpoly_transp, 0),
     CLIP      |-> BitSet(mtpoly_transp, 2)]

\* the _TexFaceModes built for one polygon
TexFaceModes(mtpoly_mode, mtpoly_transp) ==
    [TEX       |-> BitSet(mtpoly_mode, 2),
     TILES     |-> BitSet(mtpoly_mode, 7),
     LIGHT     |-> BitSet(mtpoly_mode, 4),
     INVISIBLE |-> BitSet(mtpoly_mode, 10),
     DYNAMIC   |-> BitSet(mtpoly_mode, 0),
     TWOSIDE   |-> BitSet(mtpoly_mode, 9),
     SHADOW    |-> BitSet(mtpoly_mode, 13),
     ALPHA     |-> BitSet(mtpoly_transp, 1),
     CLIP      |-> BitSet(mtpoly_transp, 2)]

\* the position of key in the dictionary d (a list of entries in insertion order), or 0
DictFind(d, key) ==
    IF \E j \in 1..Len(d) : d[j].key = key
    THEN CHOOSE j \in 1..Len(d) : d[j].key = key
    ELSE 0

DictAppend_Overwrite(d, key, idx) ==
    IF DictFind(d, key) = 0
    THEN Append(d, [key |-> key, idxs |-> <<idx>>])
    ELSE [d EXCEPT ![DictFind(d, key)].idxs = <<idx>>]

\* poly_c_info[tf_modes].append(idx) on a defaultdict(list)
DictAppend(d, key, idx) ==
    IF DictFind(d, key) = 0
    THEN Append(d, [key |-> key, idxs |-> <<idx>>])
    ELSE [d EXCEPT ![DictFind(d, key)].idxs = Append(@, idx)]

\* the loop over enumerate(zip(mesh.mpoly[:totpoly], mesh.mtpoly[:totpoly])), from idx
RECURSIVE TfLoop(_, _, _)
TfLoop(polys, idx, poly_c_info) ==
    IF idx >= Len(polys) THEN poly_c_info
    ELSE TfLoop(polys, idx + 1,
                DictAppend(poly_c_info,
                           TexFaceModes(polys[idx + 1].mode,
                                        IntFromByte(polys[idx + 1].transp)),
                           idx))

\* _get_tf_modes_from_ctypes(obj); obj.data is None for an object that is no mesh.
\* On a mesh that was never unwrapped mtpoly is NULL: the slice of line 231
\* fails with ValueError("NULL pointer access") inside the call of zip, which
\* ends in a SystemError that has the ValueError as its cause.
get_tf_modes_from_ctypes(obj) ==
    IF obj.type # "MESH" THEN Raised("AssertionError")
    ELSE IF ~obj.data.unwrapped /\ Len(obj.data.polys) > 0
    THEN Raised("SystemError: <class 'zip'> returned a result with an exception set")
    ELSE Returned(TfLoop(obj.data.polys, 0, <<>>))

\* the polygons of a mesh: material index, texture-face mode and transparency
TfPolys == [mat_nr : {0}, mode : TfModeValues, transp : TfTranspValues]

\* sequences over S of length 0..n
SeqsUpTo(S, n) == UNION {[1..k -> S] : k \in 0..n}

\* the objects _get_tf_modes_from_ctypes is called with
TfObjects ==
    {[type |-> "EMPTY", data |-> None]}
    \cup [type : {"MESH"},
          data : [polys : SeqsUpTo(TfPolys, MaxPolys), unwrapped : {TRUE},
                  materials : {<<>>}]]
    \cup [type : {"MESH"},
          data : [polys : SeqsUpTo(TfPolys, 1), unwrapped : {FALSE},
                  materials : {<<>>}]]

TfInit ==
    /\ tf_mesh \in TfObjects
    /\ tf_out = NotCalled
    /\ transports = <<>>
    /\ messages = <<>>
    /\ calls = <<>>
    /\ lhs = None
    /\ rhs = None
    /\ include_data_model_version = FALSE
    /\ include_build_number = FALSE
    /\ cmp_out = NotCalled
    /\ bpy = None
    /\ args = None
    /\ cm_out = NotCalled
    /\ conv_args = None
    /\ conv_out = NotCalled
    /\ runs = 0
    /\ converted_objects = {}
    /\ scenes = <<>>
    /\ context_scene = 0
    /\ do_workflow_type = None
    /\ layer_props_calls = <<>>
    /\ do_out = NotCalled

\* the call _get_tf_modes_from_ctypes(tf_mesh)
CallGetTfModes ==
    /\ tf_out = NotCalled
    /\ tf_out' = get_tf_modes_from_ctypes(tf_mesh)
    /\ UNCHANGED <<tf_mesh, loggerVars, cmpVars, cmVars, convVars, doVars>>

TfNext == CallGetTfModes

SpecTf == TfInit /\ [][TfNext]_vars

\* the nine pressed states of a polygon, read bit by bit
PressedStates(poly) ==
    [TEX       |-> (poly.mode \div 4) % 2 = 1,
     TILES     |-> (poly.mode \div 128) % 2 = 1,
     LIGHT     |-> (poly.mode \div 16) % 2 = 1,
     INVISIBLE |-> (poly.mode \div 1024) % 2 = 1,
     DYNAMIC   |-> poly.mode % 2 = 1,
     TWOSIDE   |-> (poly.mode \div 512) % 2 = 1,
     SHADOW    |-> (poly.mode \div 8192) % 2 = 1,
     ALPHA     |-> (poly.transp \div 2) % 2 = 1,
     CLIP      |-> (poly.transp \div 4) % 2 = 1]

\* C2: the returned dictionary partitions the polygons: every index 0..totpoly-1
\* is in exactly one group (and once in it), the group's key is the polygon's own
\* nine pressed states, no group is empty, keys are distinct and the indices of a
\* group ascend.
C2_Partition ==
    tf_out.status = "returned" =>
        LET d == tf_out.value
            polys == tf_mesh.data.polys
        IN /\ \A i \in 0..(Len(polys) - 1) :
                 Cardinality({<<g, n>> \in (1..Len(d)) \X (1..Len(polys)) :
                                 n <= Len(d[g].idxs) /\ d[g].idxs[n] = i}) = 1
           /\ \A g \in 1..Len(d) :
                 /\ Len(d[g].idxs) > 0
                 /\ \A n \in 1..Len(d[g].idxs) :
                       /\ d[g].idxs[n] \in 0..(Len(polys) - 1)
                       /\ d[g].key = PressedStates(polys[d[g].idxs[n] + 1])
                       /\ \A m \in 1..(n - 1) : d[g].idxs[m] < d[g].idxs[n]
           /\ \A g, h \in 1..Len(d) : g # h => d[g].key # d[h].key

\* three polygons in two groups: polygons 0 and 2 share a group, polygon 1 has its own
C2_Witness ==
    /\ tf_out.status = "returned"
    /\ Len(tf_mesh.data.polys) = 3
    /\ Len(tf_out.value) = 2
    /\ tf_out.value[1].idxs = <<0, 2>>
    /\ tf_out.value[2].idxs = <<1>>
    /\ tf_mesh.data.polys[1].mode # tf_mesh.data.polys[3].mode

\* bit b of the two's complement value x, as 0 or 1
BitOf(x, b) == ((x % (2 ^ (b + 1))) - (x % (2 ^ b))) \div (2 ^ b)

\* the nine bits the buttons are read from: seven of the mode, two of the
\* transparency byte
NineBits(poly) ==
    <<BitOf(poly.mode, 2), BitOf(poly.mode, 7), BitOf(poly.mode, 4),
      BitOf(poly.mode, 10), BitOf(poly.mode, 0), BitOf(poly.mode, 9),
      BitOf(poly.mode, 13), BitOf(poly.transp, 1), BitOf(poly.transp, 2)>>

\* the group (position in the returned dictionary) holding polygon index i
GroupOf(d, i) == CHOOSE g \in 1..Len(d) : i \in Range(d[g].idxs)

\* C12: for every polygon with mode m and transparency byte t, the key of its
\* group has TEX = bit 2 of m, TILES = bit 7, LIGHT = bit 4, INVISIBLE = bit 10,
\* DYNAMIC = bit 0, TWOSIDE = bit 9, SHADOW = bit 13 of m, ALPHA = bit 1 of t and
\* CLIP = bit 2 of t; two polygons are in the same group exactly when they agree
\* on these nine bits, whatever their other bits.
C12_FlagBits ==
    tf_out.status = "returned" =>
        LET d == tf_out.value
            polys == tf_mesh.data.polys
            Idx == 0..(Len(polys) - 1)
        IN /\ \A i \in Idx :
                 /\ \E g \in 1..Len(d) : i \in Range(d[g].idxs)
                 /\ LET key == d[GroupOf(d, i)].key
                        bits == NineBits(polys[i + 1])
                    IN /\ key.TEX = (bits[1] = 1)
                       /\ key.TILES = (bits[2] = 1)
                       /\ key.LIGHT = (bits[3] = 1)
                       /\ key.INVISIBLE = (bits[4] = 1)
                       /\ key.DYNAMIC = (bits[5] = 1)
                       /\ key.TWOSIDE = (bits[6] = 1)
                       /\ key.SHADOW = (bits[7] = 1)
                       /\ key.ALPHA = (bits[8] = 1)
                       /\ key.CLIP = (bits[9] = 1)
           /\ \A i, j \in Idx :
                 (\E g \in 1..Len(d) : {i, j} \subseteq Range(d[g].idxs))
                     <=> (NineBits(polys[i + 1]) = NineBits(polys[j + 1]))

\* polygons 0 and 1 differ in bits that are no button (bit 1 of the mode, bit 0
\* of the transparency) and share the group DYNAMIC; polygon 2 has bits 4, 7, 9
\* and 13 of the mode and bit 2 of the transparency and is alone in the group
\* TILES, LIGHT, TWOSIDE, SHADOW, CLIP
C12_Witness ==
    /\ tf_out.status = "returned"
    /\ Len(tf_mesh.data.polys) = 3
    /\ tf_mesh.data.polys[1].mode = 1 /\ tf_mesh.data.polys[1].transp = 0
    /\ tf_mesh.data.polys[2].mode = 3 /\ tf_mesh.data.polys[2].transp = 1
    /\ tf_mesh.data.polys[3].mode = 8848 /\ tf_mesh.data.polys[3].transp = 4
    /\ Len(tf_out.value) = 2
    /\ tf_out.value[1].idxs = <<0, 1>>
    /\ tf_out.value[1].key.DYNAMIC /\ ~tf_out.value[1].key.TEX
    /\ tf_out.value[2].idxs = <<2>>
    /\ tf_out.value[2].key.SHADOW /\ tf_out.value[2].key.CLIP
    /\ ~tf_out.value[2].key.ALPHA

(***************************************************************************)
(* The host data convert_materials works on.                               *)
(*   bpy.objects   : scene.objects, in link order                          *)
(*   bpy.meshes    : bpy.data.meshes; an object's data is a position in it *)
(*   bpy.materials : bpy.data.materials; a material slot holds a material  *)
(*                   id, or NoMaterial for an empty slot                   *)
(* Names are lists of name parts: "m.001SHADOW" is <<"m", ".001",          *)
(* "SHADOW">>.                                                             *)
(***************************************************************************)
NoMaterial == 0

\* xplane_249_constants.DEFAULT_MATERIAL_NAME
DEFAULT_MATERIAL_NAME == <<"Material_249_converter_default">>

\* the suffixes the host appends to make a datablock name unique
DupSuffixes == <<".001", ".002", ".003", ".004", ".005", ".006", ".007", ".008">>

\* the name the host gives a new datablock asked to be called name
UniqueName(names, name) ==
    IF name \notin names THEN name
    ELSE name \o <<DupSuffixes[CHOOSE k \in 1..Len(DupSuffixes) :
                                  /\ (name \o <<DupSuffixes[k]>>) \notin names
                                  /\ \A j \in 1..(k - 1) :
                                        (name \o <<DupSuffixes[j]>>) \in names]>>

MaterialNames(materials) == {materials[i].name : i \in 1..Len(materials)}

\* the material datablock with this id
MaterialById(materials, id) ==
    materials[CHOOSE i \in 1..Len(materials) : materials[i].id = id]

\* Material.users: the material slots that hold the material
MaterialUsers(meshes, id) ==
    Cardinality({<<m, k>> \in (1..Len(meshes)) \X (1..8) :
                    k <= Len(meshes[m].materials) /\ meshes[m].materials[k] = id})

\* the settings of a material that _convert_material reads or writes (mat.xplane)
DefaultXPlane ==
    [blend_v1000 |-> "on", blendRatio |-> "0.5", draped |-> FALSE, poly_os |-> 0,
     draw |-> TRUE, solid_camera |-> FALSE, shadow_local |-> TRUE]

\* material_slots[k].material of an empty slot: None
NoneMaterial ==
    [id |-> NoMaterial, name |-> <<>>, look |-> None, xplane |-> DefaultXPlane]

\* bpy.data.materials.new(name)
materials_new(st, name) ==
    [st EXCEPT !.materials =
                  Append(@, [id |-> st.next_id,
                             name |-> UniqueName(MaterialNames(st.materials), name),
                             look |-> "new",
                             xplane |-> DefaultXPlane]),
               !.next_id = @ + 1]

\* the object with this name, as a position in objects
ObjectIndex(objects, name) == CHOOSE i \in 1..Len(objects) : objects[i].name = name

\* xplane_249_helpers.find_property_in_parents(obj, prop)[1]: the object or one of
\* its ancestors has the game property
RECURSIVE find_property_in_parents(_, _, _)
find_property_in_parents(objects, obj, prop) ==
    IF prop \in obj.props THEN TRUE
    ELSE IF obj.parent = None THEN FALSE
    ELSE find_property_in_parents(objects, objects[ObjectIndex(objects, obj.parent)], prop)

\* obj is below root in the parent hierarchy
RECURSIVE IsDescendant(_, _, _)
IsDescendant(objects, obj, root) ==
    IF obj.parent = None THEN FALSE
    ELSE IF obj.parent = root.name THEN TRUE
    ELSE IsDescendant(objects, objects[ObjectIndex(objects, obj.parent)], root)

\* xplane_249_helpers.get_all_children_recursive(root_object, scene), as positions
get_all_children_recursive(objects, root) ==
    {i \in 1..Len(objects) : IsDescendant(objects, objects[i], root)}

\* the upper case letters and their lower case
UpperCase ==
    <<"A", "B", "C", "D", "E", "F", "G", "H", "I", "J", "K", "L", "M",
      "N", "O", "P", "Q", "R", "S", "T", "U", "V", "W", "X", "Y", "Z">>

LowerCase ==
    <<"a", "b", "c", "d", "e", "f", "g", "h", "i", "j", "k", "l", "m",
      "n", "o", "p", "q", "r", "s", "t", "u", "v", "w", "x", "y", "z">>

\* str.lower() of one character
Lower(c) ==
    IF c \in Range(UpperCase) THEN LowerCase[ListIndex(UpperCase, c)] ELSE c

\* s.lower() of a string given as its list of characters
LowerStr(s) == [i \in 1..Len(s) |-> Lower(s[i])]

\* s.endswith(suffix)
EndsWith(s, suffix) ==
    /\ Len(suffix) <= Len(s)
    /\ SubSeq(s, Len(s) - Len(suffix) + 1, Len(s)) = suffix

CockpitSuffixes ==
    {<<"_", "c", "o", "c", "k", "p", "i", "t", ".", "o", "b", "j">>,
     <<"_", "c", "o", "c", "k", "p", "i", "t", "_", "i", "n", "n", ".", "o", "b", "j">>,
     <<"_", "c", "o", "c", "k", "p", "i", "t", "_", "o", "u", "t", ".", "o", "b", "j">>}

\* ISCOCKPIT of convert_materials, from root_object.xplane.layer.name
IsCockpit(layer_name) ==
    \E cockpit_suffix \in CockpitSuffixes :
        EndsWith(LowerStr(layer_name) \o <<".", "o", "b", "j">>, cockpit_suffix)

(***************************************************************************)
(* _convert_material                                                       *)
(***************************************************************************)
\* the _TexFaceModes fields, in declaration order, with field[:2]
TexFaceFields ==
    <<[field |-> "TEX", short |-> "TE"], [field |-> "TILES", short |-> "TI"],
      [field |-> "LIGHT", short |-> "LI"], [field |-> "INVISIBLE", short |-> "IN"],
      [field |-> "DYNAMIC", short |-> "DY"], [field |-> "TWOSIDE", short |-> "TW"],
      [field |-> "SHADOW", short |-> "SH"], [field |-> "ALPHA", short |-> "AL"],
      [field |-> "CLIP", short |-> "CL"]>>

\* _cmp_dyn(self, field)
cmp_dyn(tf_modes, field) ==
    \/ field = "DYNAMIC" /\ ~tf_modes["DYNAMIC"]
    \/ field # "DYNAMIC" /\ tf_modes[field]

\* _TexFaceModes.short_name(), as a list of two-letter parts
short_name(tf_modes) ==
    LET picked == SelectSeq(TexFaceFields, LAMBDA f : cmp_dyn(tf_modes, f.field))
    IN [i \in 1..Len(picked) |-> picked[i].short]

\* logger.info(message) / logger.warn(message): the record XPlaneLogger.log buffers
LogRecord(messageType, message) ==
    [type |-> messageType, message |-> message, context |-> None]

\* the TEX section of _convert_material; c holds the new material's settings, the
\* records logged and whether the root became Instanced Scenery
ConvertTex(c, objects, search_obj, tf_modes, mat) ==
    LET c1 == IF tf_modes.TEX /\ tf_modes.ALPHA
                 /\ find_property_in_parents(objects, search_obj, "ATTR_shadow_blend")
              THEN [c EXCEPT !.xplane.blend_v1000 = "shadow",
                             !.xplane.blendRatio = "0.5",
                             !.logs = Append(@, LogRecord("info", mat.name \o
                                 <<": Blend Mode='Shadow' and Blend Ratio=0.5">>))]
              ELSE c
        c2 == IF tf_modes.TEX /\ tf_modes.ALPHA
                 /\ find_property_in_parents(objects, search_obj, "GLOBAL_shadow_blend")
              THEN [c1 EXCEPT !.xplane.blend_v1000 = "shadow",
                              !.xplane.blendRatio = "0.5",
                              !.instanced = TRUE,
                              !.logs = Append(@, LogRecord("info", mat.name \o
                                  <<": Blend Mode='Shadow' and Blend Ratio=0.5, now Instanced Scenery">>))]
              ELSE c1
        c3 == IF tf_modes.TEX /\ tf_modes.CLIP
                 /\ find_property_in_parents(objects, search_obj, "ATTR_no_blend")
              THEN [c2 EXCEPT !.xplane.blend_v1000 = "off",
                              !.xplane.blendRatio = "0.5",
                              !.logs = Append(@, LogRecord("info", mat.name \o
                                  <<": Blend Mode='Off' and Blend Ratio=0.5">>))]
              ELSE c2
        c4 == IF tf_modes.TEX /\ tf_modes.CLIP
                 /\ find_property_in_parents(objects, search_obj, "GLOBAL_no_blend")
              THEN [c3 EXCEPT !.xplane.blend_v1000 = "off",
                              !.xplane.blendRatio = "0.5",
                              !.instanced = TRUE,
                              !.logs = Append(@, LogRecord("info", mat.name \o
                                  <<": Blend Mode='Off' and Blend Ratio=0.5, now Instanced Scenery">>))]
              ELSE c3
    IN c4

\* the TILES/LIGHT section
ConvertTilesLight(c, objects, search_obj, is_cockpit, tf_modes, mat) ==
    IF ~is_cockpit /\ (tf_modes.TILES \/ tf_modes.LIGHT)
    THEN IF find_property_in_parents(objects, search_obj, "ATTR_draped")
         THEN [c EXCEPT !.xplane.draped = TRUE,
                        !.logs = Append(@, LogRecord("info", mat.name \o <<": Draped=True">>))]
         ELSE [c EXCEPT !.xplane.poly_os = 2,
                        !.logs = Append(@, LogRecord("info", mat.name \o <<": Poly Offset=2">>))]
    ELSE c

\* the INVISIBLE section
ConvertInvisible(c, tf_modes, mat) ==
    IF tf_modes.INVISIBLE
    THEN [c EXCEPT !.xplane.draw = FALSE,
                   !.logs = Append(@, LogRecord("info", mat.name \o
                       <<": Draw Objects With This Material=False">>))]
    ELSE c

\* the DYNAMIC section
ConvertDynamic(c, is_cockpit, tf_modes, mat) ==
    IF ~tf_modes.INVISIBLE /\ ~is_cockpit /\ ~tf_modes.DYNAMIC
    THEN [c EXCEPT !.xplane.solid_camera = TRUE,
                   !.logs = Append(@, LogRecord("info", mat.name \o <<": Solid Camera=True">>))]
    ELSE c

\* the TWOSIDE section
ConvertTwoSide(c, tf_modes, mat) ==
    IF tf_modes.TWOSIDE
    THEN [c EXCEPT !.logs = Append(@, LogRecord("warning", mat.name \o
                       <<": Two Sided is deprecated, skipping">>))]
    ELSE c

\* the SHADOW section
ConvertShadow(c, tf_modes, mat) ==
    LET c1 == [c EXCEPT !.xplane.shadow_local = ~tf_modes.SHADOW]
    IN IF ~c1.xplane.shadow_local
       THEN [c1 EXCEPT !.logs = Append(@, LogRecord("info", mat.name \o
                           <<": Cast Shadow (Local)=False">>))]
       ELSE c1

\* the settings of the new material after the six sections, with the records logged
ConvertSections(objects, search_obj, is_cockpit, tf_modes, mat) ==
    ConvertShadow(
      ConvertTwoSide(
        ConvertDynamic(
          ConvertInvisible(
            ConvertTilesLight(
              ConvertTex([xplane |-> mat.xplane, logs |-> <<>>, instanced |-> FALSE],
                         objects, search_obj, tf_modes, mat),
              objects, search_obj, is_cockpit, tf_modes, mat),
            tf_modes, mat),
          is_cockpit, tf_modes, mat),
        tf_modes, mat),
      tf_modes, mat)

\* mat.copy() keeps the specularity and the diffuse/emissive colour of mat
NewMaterialLook(mat) == mat.look

\* new_material = mat.copy() and the sections of lines 268-338: the host data
\* with the new material, named name, as the last of st.materials
NewMaterial(st, root, search_obj, is_cockpit, tf_modes, mat, name) ==
    LET c == ConvertSections(st.objects, search_obj, is_cockpit, tf_modes, mat)
        new_material ==
            [id |-> st.next_id,
             name |-> UniqueName(MaterialNames(st.materials), name),
             look |-> NewMaterialLook(mat),
             xplane |-> c.xplane]
    IN [st EXCEPT !.materials = Append(@, new_material),
                  !.next_id = @ + 1,
                  !.logs = @ \o c.logs,
                  !.objects[root].export_type =
                      IF c.instanced THEN "instanced_scenery" ELSE @]

\* line 266, `new_material.name = mat.name + "_split_" tf_modes.short_name()`:
\* there is no operator between "_split_" and tf_modes.short_name(), which is
\* no Python expression
Line266 == [status |-> "raised", exception |-> "SyntaxError: invalid syntax"]

\* _convert_material(scene, root_object, search_obj, is_cockpit, tf_modes, mat):
\* the host data afterwards; mat is NoneMaterial for an empty material slot.  The
\* function does not compile (line 266), so no statement of it runs, not even
\* the print(mat.name) of line 260: a call ends in the SyntaxError and makes no
\* material, whatever mat is.
ConvertMaterial(st, root, search_obj, is_cockpit, tf_modes, mat) ==
    IF Line266.status = "raised"
    THEN [st EXCEPT !.exc = Line266.exception]
    ELSE IF mat.id = NoMaterial
    THEN [st EXCEPT !.exc = "AttributeError: 'NoneType' object has no attribute 'name'"]
    ELSE NewMaterial(st, root, search_obj, is_cockpit, tf_modes, mat,
                     mat.name \o <<"_split_">> \o short_name(tf_modes))

(***************************************************************************)
(* convert_materials.  The module does not compile as a whole (line 266);  *)
(* the functions are taken one by one: _convert_material cannot be         *)
(* compiled and is therefore no defined name, the others are compiled on   *)
(* their own and run up to the point where they call it.                   *)
(* The call works on st: the host data (objects,                           *)
(* meshes, materials, next_id), the records logged so far (logs) and the   *)
(* exception that ended the call (exc, None while it runs).  A step on a   *)
(* st with an exception leaves it as it is.                                *)
(***************************************************************************)
\* the names copy_obj appends to the copies
SplitNames == <<"SHADOW", "TILE", "INVISIBLE">>

\* object names in ascending string order
ObjectNameOrder == <<"mesh_a", "mesh_b", "mesh_c", "mesh_d", "root">>

\* a.name < b.name for the objects of the scene at the time of the call
NameLt(a, b) == ListIndex(ObjectNameOrder, a[1]) < ListIndex(ObjectNameOrder, b[1])

\* sorted(objs, key=lambda x: x.name), objs a set of positions in objects
RECURSIVE SortedByName(_, _)
SortedByName(objects, idxs) ==
    IF idxs = {} THEN <<>>
    ELSE LET first == CHOOSE i \in idxs :
                         \A j \in idxs \ {i} : NameLt(objects[i].name, objects[j].name)
         IN <<first>> \o SortedByName(objects, idxs \ {first})

\* sorted(s, reverse=True) of a set of integers
RECURSIVE SortedReverse(_)
SortedReverse(S) ==
    IF S = {} THEN <<>>
    ELSE LET top == CHOOSE x \in S : \A y \in S : y <= x
         IN <<top>> \o SortedReverse(S \ {top})

RECURSIVE SortedAscending(_)
SortedAscending(S) ==
    IF S = {} THEN <<>>
    ELSE LET low == CHOOSE x \in S : \A y \in S : x <= y
         IN <<low>> \o SortedAscending(S \ {low})

\* copy_obj(search_obj), the (i+1)-th call: the copy is linked to the scene and the
\* mesh is copied before the name is looked up in the three-element list
copy_obj(st, search_obj, i) ==
    LET obj == st.objects[search_obj]
        names == {st.objects[k].name : k \in 1..Len(st.objects)}
        new_obj == [obj EXCEPT !.name = UniqueName(names, obj.name)]
        linked == [st EXCEPT !.objects = Append(@, new_obj),
                             !.meshes = Append(@, st.meshes[obj.data])]
        at == Len(linked.objects)
    IN IF i >= Len(SplitNames)
       THEN [linked EXCEPT !.exc = "IndexError: list index out of range"]
       ELSE [linked EXCEPT !.objects[at].name = @ \o <<SplitNames[i + 1]>>,
                           !.objects[at].data = Len(linked.meshes)]

\* the dictionary comprehension building modes_to_faces_col, from entry j
RECURSIVE CopyAll(_, _, _, _)
CopyAll(st, search_obj, all_tf_modes, j) ==
    IF st.exc # None \/ j > Len(all_tf_modes) THEN st
    ELSE CopyAll(copy_obj(st, search_obj, j - 1), search_obj, all_tf_modes, j + 1)

\* the polygons whose index (from 0) is in keep, in mesh order
RECURSIVE KeepFaces(_, _, _)
KeepFaces(polys, keep, idx) ==
    IF idx >= Len(polys) THEN <<>>
    ELSE (IF idx \in keep THEN <<polys[idx + 1]>> ELSE <<>>)
         \o KeepFaces(polys, keep, idx + 1)

\* scene.objects.active.active_material_index = slot_idx; then
\* bpy.ops.object.material_slot_remove(): the host clamps the index to the slots,
\* drops the slot and moves the polygons of the later slots one slot down
material_slot_remove(mesh, slot_idx) ==
    IF Len(mesh.materials) = 0 THEN mesh
    ELSE LET actcol == IF slot_idx > Len(mesh.materials) - 1
                       THEN Len(mesh.materials) - 1 ELSE slot_idx
         IN [mesh EXCEPT
                !.materials = SubSeq(@, 1, actcol) \o SubSeq(@, actcol + 2, Len(@)),
                !.polys = [k \in 1..Len(@) |->
                              IF @[k].mat_nr # 0 /\ @[k].mat_nr >= actcol
                              THEN [@[k] EXCEPT !.mat_nr = @ - 1]
                              ELSE @[k]]]

\* the loop "for slot_idx in (slot_idxs_to_remove)" of remove_faces, from entry j
RECURSIVE RemoveSlots(_, _, _)
RemoveSlots(mesh, slot_idxs_to_remove, j) ==
    IF j > Len(slot_idxs_to_remove) THEN mesh
    ELSE RemoveSlots(material_slot_remove(mesh, slot_idxs_to_remove[j]),
                     slot_idxs_to_remove, j + 1)

SlotIdxsToRemove_Ascending(polys, face_ids) ==
    SortedAscending({polys[k].mat_nr : k \in {n \in 1..Len(polys) : (n - 1) \notin Range(face_ids)}}
                    \ {polys[k].mat_nr : k \in {n \in 1..Len(polys) : (n - 1) \in Range(face_ids)}})

\* slot_idxs_to_remove of remove_faces
SlotIdxsToRemove(polys, face_ids) ==
    SortedReverse({polys[k].mat_nr : k \in {n \in 1..Len(polys) : (n - 1) \notin Range(face_ids)}}
                  \ {polys[k].mat_nr : k \in {n \in 1..Len(polys) : (n - 1) \in Range(face_ids)}})

\* remove_faces(face_ids, new_obj)
remove_faces(st, face_ids, new_obj) ==
    IF st.exc # None THEN st
    ELSE LET data == st.objects[new_obj].data
             mesh == st.meshes[data]
             slot_idxs_to_remove == SlotIdxsToRemove(mesh.polys, face_ids)
             kept == [mesh EXCEPT !.polys = KeepFaces(@, Range(face_ids), 0)]
         IN [st EXCEPT !.meshes[data] = RemoveSlots(kept, slot_idxs_to_remove, 1)]

\* convert_material(tf_modes, new_obj), the closure of convert_materials.
\* Line 456 reads slot 0; line 457 calls _convert_material, a name that is not
\* defined because the function does not compile (line 266): the call of the
\* closure ends in NameError there, and line 458 is not reached.
convert_material(st, root, is_cockpit, tf_modes, new_obj) ==
    IF st.exc # None THEN st
    ELSE LET data == st.objects[new_obj].data
             slots == st.meshes[data].materials
         IN IF Len(slots) = 0
            THEN [st EXCEPT !.exc = "IndexError: material_slots[0]"]
            ELSE IF Line266.status = "raised"
            THEN [st EXCEPT !.exc = "NameError: name '_convert_material' is not defined"]
            ELSE LET current_material ==
                         IF slots[1] = NoMaterial THEN NoneMaterial
                         ELSE MaterialById(st.materials, slots[1])
                     made == ConvertMaterial(st, root, st.objects[new_obj], is_cockpit,
                                             tf_modes, current_material)
                 IN IF made.exc # None THEN made
                    ELSE [made EXCEPT !.meshes[data].materials[1] =
                                         made.materials[Len(made.materials)].id]

\* the loop over modes_to_faces_col.items(), from entry j; the copy of entry j is
\* the object at position first_copy + j - 1
RECURSIVE SplitGroups(_, _, _, _, _, _)
SplitGroups(st, root, is_cockpit, all_tf_modes, first_copy, j) ==
    IF st.exc # None \/ j > Len(all_tf_modes) THEN st
    ELSE SplitGroups(
             convert_material(
                 remove_faces(st, all_tf_modes[j].idxs, first_copy + j - 1),
                 root, is_cockpit, all_tf_modes[j].key, first_copy + j - 1),
             root, is_cockpit, all_tf_modes, first_copy, j + 1)

\* the number of texture-face groups a mesh must exceed to be split
SplitThreshold == 2

\* the body of the loop over the search objects, for one search_obj
ConvertSearchObj(st, root, is_cockpit, search_obj) ==
    LET with_default == materials_new(st, DEFAULT_MATERIAL_NAME)
        obj == with_default.objects[search_obj]
        got == get_tf_modes_from_ctypes([type |-> obj.type,
                                         data |-> with_default.meshes[obj.data]])
    IN IF got.status = "raised"
       THEN [with_default EXCEPT !.exc = got.exception]
       ELSE IF Len(got.value) > SplitThreshold
       THEN SplitGroups(CopyAll(with_default, search_obj, got.value, 1),
                        root, is_cockpit, got.value, Len(with_default.objects) + 1, 1)
       ELSE with_default

\* the loop over the sorted MESH search objects, from entry j
RECURSIVE ForSearchObjs(_, _, _, _, _)
ForSearchObjs(st, root, is_cockpit, search_objs, j) ==
    IF st.exc # None \/ j > Len(search_objs) THEN st
    ELSE ForSearchObjs(ConvertSearchObj(st, root, is_cockpit, search_objs[j]),
                       root, is_cockpit, search_objs, j + 1)

\* the last two lines of convert_materials: the default material is dropped when
\* it has no users
RemoveUnusedDefault(st) ==
    IF st.exc # None THEN st
    ELSE IF DEFAULT_MATERIAL_NAME \notin MaterialNames(st.materials)
    THEN [st EXCEPT !.exc = "KeyError: DEFAULT_MATERIAL_NAME"]
    ELSE LET at == CHOOSE i \in 1..Len(st.materials) :
                       st.materials[i].name = DEFAULT_MATERIAL_NAME
         IN IF MaterialUsers(st.meshes, st.materials[at].id) = 0
            THEN [st EXCEPT !.materials = SubSeq(@, 1, at - 1) \o SubSeq(@, at + 1, Len(@))]
            ELSE st

\* search_objs of convert_materials, as a set of positions; {} with the assertion
\* failure for a workflow type that is neither REGULAR nor BULK
SearchObjs(objects, workflow_type, root) ==
    IF workflow_type = "REGULAR" THEN 1..Len(objects)
    ELSE {root} \cup get_all_children_recursive(objects, objects[root])

\* convert_materials(scene, workflow_type, root_object)
convert_materials(host, workflow_type, root_object) ==
    LET st == [objects |-> host.objects, meshes |-> host.meshes,
               materials |-> host.materials, next_id |-> host.next_id,
               logs |-> <<>>, exc |-> None]
        root == ObjectIndex(host.objects, root_object)
    IN IF workflow_type \notin {"REGULAR", "BULK"}
       THEN [st EXCEPT !.exc = "AssertionError: Unknown workflow type"]
       ELSE LET search_objs == SearchObjs(host.objects, workflow_type, root)
                meshes == {i \in search_objs : host.objects[i].type = "MESH"}
            IN RemoveUnusedDefault(
                   ForSearchObjs(st, root, IsCockpit(host.objects[root].layer_name),
                                 SortedByName(host.objects, meshes), 1))

(***************************************************************************)
(* The scenes convert_materials is called on                               *)
(***************************************************************************)
MaxMeshes == 2
MaxScenePolys == 4

\* three materials that differ in specularity and diffuse/emissive colour
SceneMaterials ==
    <<[id |-> 1, name |-> <<"MatA">>, look |-> "grey", xplane |-> DefaultXPlane],
      [id |-> 2, name |-> <<"MatB">>, look |-> "red",
       xplane |-> [DefaultXPlane EXCEPT !.draw = FALSE, !.blendRatio = "0.25"]],
      [id |-> 3, name |-> <<"MatC">>, look |-> "blue",
       xplane |-> [DefaultXPlane EXCEPT !.solid_camera = TRUE, !.shadow_local = FALSE]]>>

\* the material slots of a mesh: none; MatA, MatB, MatC; an empty slot and MatB
SceneSlots == {<<>>, <<1, 2, 3>>, <<NoMaterial, 2>>}

\* polygons: two in the collision-only group with different materials, and one in
\* each of three other groups
ScenePolys ==
    {[mat_nr |-> 0, mode |-> 1, transp |-> 0],
     [mat_nr |-> 1, mode |-> 3, transp |-> 0],
     [mat_nr |-> 1, mode |-> 1029, transp |-> 2],
     [mat_nr |-> 2, mode |-> 8848, transp |-> 0],
     [mat_nr |-> 0, mode |-> 0, transp |-> 4]}

\* the meshes of at most n polygons; a polygon's material index is one of the
\* mesh's slots (0 when it has none); a mesh that was never unwrapped has no
\* texture-face data
SceneMeshes(n) ==
    {m \in [polys : SeqsUpTo(ScenePolys, n), unwrapped : {TRUE}, materials : SceneSlots] :
        \A k \in 1..Len(m.polys) :
            m.polys[k].mat_nr = 0 \/ m.polys[k].mat_nr < Len(m.materials)}
    \cup {m \in [polys : SeqsUpTo({[mat_nr |-> 0, mode |-> 0, transp |-> 0]}, 1),
                 unwrapped : {FALSE}, materials : {<<1, 2, 3>>}] : Len(m.polys) <= n}

\* the further meshes of a scene: one polygon, slots MatA, MatB, MatC
PlainMeshes ==
    {[polys |-> <<[mat_nr |-> 0, mode |-> 1, transp |-> 0]>>, unwrapped |-> TRUE,
      materials |-> <<1, 2, 3>>]}

\* the lists of n plain meshes with at most budget polygons in all
RECURSIVE PlainLists(_, _)
PlainLists(n, budget) ==
    IF n = 0 THEN {<<>>}
    ELSE UNION {{<<m>> \o rest : rest \in PlainLists(n - 1, budget - Len(m.polys))} :
                   m \in {p \in PlainMeshes : Len(p.polys) <= budget}}

\* the lists of n meshes with at most budget polygons in all: the first mesh is
\* any of SceneMeshes, the others are plain
MeshLists(n, budget) ==
    IF n = 0 THEN {<<>>}
    ELSE UNION {{<<m>> \o rest : rest \in PlainLists(n - 1, budget - Len(m.polys))} :
                   m \in SceneMeshes(budget)}

\* the root object: its layer name (a list of characters) and game properties
SceneRoots ==
    {[layer_name |-> <<"c", "a", "r">>,
      props |-> {"ATTR_shadow_blend", "GLOBAL_no_blend", "ATTR_draped"}],
     [layer_name |-> <<"A", "_", "C", "o", "c", "k", "p", "i", "t", "_", "I", "N", "N">>,
      props |-> {"GLOBAL_shadow_blend", "ATTR_no_blend"}]}

RootObject(r) ==
    [name |-> <<"root">>, type |-> "EMPTY", parent |-> None, data |-> 0,
     props |-> r.props, layer_name |-> r.layer_name, export_type |-> "aircraft"]

\* the k-th mesh object; the first children of them are children of the root
MeshObject(k, children) ==
    [name |-> <<ObjectNameOrder[k]>>, type |-> "MESH",
     parent |-> IF k <= children THEN <<"root">> ELSE None, data |-> k,
     props |-> {}, layer_name |-> <<>>, export_type |-> "aircraft"]

\* the host data: the root, then the mesh objects from the last to the first
Host(r, meshes, children) ==
    [objects |-> <<RootObject(r)>> \o
                 [k \in 1..Len(meshes) |-> MeshObject(Len(meshes) + 1 - k, children)],
     meshes |-> meshes,
     materials |-> SceneMaterials,
     next_id |-> Len(SceneMaterials) + 1]

WorkflowTypes == {"REGULAR", "BULK", "SKIP"}

\* the host data and the arguments of one call of convert_materials
Init ==
    /\ \E n \in 0..MaxMeshes :
         \E meshes \in MeshLists(n, MaxScenePolys), children \in 0..1, r \in SceneRoots :
             bpy = Host(r, meshes, children)
    /\ args \in [workflow_type : WorkflowTypes, root_object : {<<"root">>}]
    /\ cm_out = NotCalled
    /\ conv_args = None
    /\ conv_out = NotCalled
    /\ runs = 0
    /\ converted_objects = {}
    /\ scenes = <<>>
    /\ context_scene = 0
    /\ do_workflow_type = None
    /\ layer_props_calls = <<>>
    /\ do_out = NotCalled
    /\ transports = <<>>
    /\ messages = <<>>
    /\ calls = <<>>
    /\ lhs = None
    /\ rhs = None
    /\ include_data_model_version = FALSE
    /\ include_build_number = FALSE
    /\ cmp_out = NotCalled
    /\ tf_mesh = None
    /\ tf_out = NotCalled

\* the records _convert_material logs go through XPlaneLogger.log, one by one
LastDispatch(ts, logs, before) ==
    IF logs = <<>> THEN before
    ELSE Dispatch(ts, 1, logs[Len(logs)].type, logs[Len(logs)].message,
                  logs[Len(logs)].context, <<>>)

\* the call convert_materials(scene, args.workflow_type, args.root_object)
CallConvertMaterials ==
    /\ cm_out = NotCalled
    /\ LET st == convert_materials(bpy, args.workflow_type, args.root_object)
       IN /\ bpy' = [objects |-> st.objects, meshes |-> st.meshes,
                     materials |-> st.materials, next_id |-> st.next_id]
          /\ cm_out' = IF st.exc = None THEN Returned(None) ELSE Raised(st.exc)
          /\ messages' = messages \o st.logs
          /\ calls' = LastDispatch(transports, st.logs, calls)
    /\ UNCHANGED <<args, transports, cmpVars, tfVars, convVars, doVars>>

Next == CallConvertMaterials

Spec == Init /\ [][Next]_vars

(***************************************************************************)
(* Properties of convert_materials.  They compare the host data before     *)
(* and after the one step of the call.                                     *)
(***************************************************************************)
\* the step of the call
Called == cm_out = NotCalled /\ cm_out' # NotCalled

\* the MESH objects among the search objects, as positions in host.objects
SearchMeshes(host, a) ==
    IF a.workflow_type \notin {"REGULAR", "BULK"} THEN {}
    ELSE {i \in SearchObjs(host.objects, a.workflow_type,
                           ObjectIndex(host.objects, a.root_object)) :
             host.objects[i].type = "MESH"}

\* the texture-face groups of a mesh, as the set of their keys
GroupKeys(mesh) == {PressedStates(mesh.polys[k]) : k \in 1..Len(mesh.polys)}

\* the positions of the polygons of a mesh that are in the group, in mesh order
FacesOfGroup(mesh, key) ==
    SortedAscending({k \in 1..Len(mesh.polys) : PressedStates(mesh.polys[k]) = key})

\* the objects the call created from object o, as positions in after.objects
CopiesOf(before, after, o) ==
    {c \in (Len(before.objects) + 1)..Len(after.objects) :
        after.objects[c].name[1] = before.objects[o].name[1]}

\* the material a polygon of the mesh refers to, NoMaterial for none
MaterialOfFace(mesh, poly) ==
    IF poly.mat_nr + 1 > Len(mesh.materials) THEN NoMaterial
    ELSE mesh.materials[poly.mat_nr + 1]

\* specularity and diffuse/emissive colour of the material a polygon refers to
LookOfFace(host, mesh, poly) ==
    IF MaterialOfFace(mesh, poly) = NoMaterial THEN None
    ELSE MaterialById(host.materials, MaterialOfFace(mesh, poly)).look

\* the material was made by _convert_material for the group with this key
IsConvertedFor(host, id, key) ==
    /\ id # NoMaterial
    /\ LET name == MaterialById(host.materials, id).name
       IN /\ Len(name) >= 2
          /\ name[2] = "_split_"
          /\ SubSeq(name, 3, 2 + Len(short_name(key))) = short_name(key)

\* C3: after convert_materials, for every MESH search object and every
\* texture-face group of its mesh (whatever the number of groups), the faces of
\* the group use a material made by _convert_material with the group's flags.
C3_EveryGroupConverted ==
    [][(Called /\ cm_out'.status = "returned") =>
        \A o \in SearchMeshes(bpy, args) :
            \A key \in GroupKeys(bpy.meshes[bpy.objects[o].data]) :
                \E c \in 1..Len(bpy'.objects) :
                    LET mesh == bpy'.meshes[bpy'.objects[c].data]
                    IN /\ bpy'.objects[c].name[1] = bpy.objects[o].name[1]
                       /\ Len(FacesOfGroup(mesh, key)) =
                              Len(FacesOfGroup(bpy.meshes[bpy.objects[o].data], key))
                       /\ \A k \in 1..Len(mesh.polys) :
                              PressedStates(mesh.polys[k]) = key =>
                                  IsConvertedFor(bpy', MaterialOfFace(mesh, mesh.polys[k]), key)
    ]_vars

\* the object is a finished sub-mesh of the group: its own mesh holds the faces of
\* the group and no other
IsSubMeshOf(before, after, o, c, key) ==
    LET orig == before.meshes[before.objects[o].data]
        sub == after.meshes[after.objects[c].data]
    IN /\ Len(sub.polys) = Len(FacesOfGroup(orig, key))
       /\ \A k \in 1..Len(sub.polys) : PressedStates(sub.polys[k]) = key

\* C4: a mesh with k texture-face groups is left unsplit (no object is created)
\* when k <= 1; for every k >= 2 the split completes and creates exactly k new
\* mesh objects, one per group.  Stated for the search object that is converted
\* first, when its mesh was unwrapped.
C4_SplitCount ==
    [][Called =>
        \A o \in SearchMeshes(bpy, args) :
            LET orig == bpy.meshes[bpy.objects[o].data]
                k == Cardinality(GroupKeys(orig))
                copies == CopiesOf(bpy, bpy', o)
            IN (/\ orig.unwrapped
                /\ \A other \in SearchMeshes(bpy, args) \ {o} :
                      NameLt(bpy.objects[o].name, bpy.objects[other].name))
               => IF k <= 1 THEN copies = {}
                  ELSE /\ Cardinality(copies) = k
                       /\ \A key \in GroupKeys(orig) :
                             \E c \in copies : IsSubMeshOf(bpy, bpy', o, c, key)
    ]_vars

\* the object has a material: one of its slots holds one
HasMaterial(host, obj) ==
    \E k \in 1..Len(host.meshes[obj.data].materials) :
        host.meshes[obj.data].materials[k] # NoMaterial

\* C6: after convert_materials returns, every MESH search object and every
\* object made by a split has at least one material.
C6_EveryObjectHasMaterial ==
    cm_out.status = "returned" =>
        \A o \in SearchMeshes(bpy, args) : HasMaterial(bpy, bpy.objects[o])

\* a default material: named DEFAULT_MATERIAL_NAME, with or without a suffix
IsDefaultMaterial(mat) == SubSeq(mat.name, 1, 1) = DEFAULT_MATERIAL_NAME

\* C7: for any number of MESH search objects (0, 1 or more) the clean-up of the
\* default material does not fail, and when the call returns no default material
\* it created is left with zero users.
C7_DefaultCleanup ==
    [][Called =>
        /\ (args.workflow_type \in {"REGULAR", "BULK"} /\ SearchMeshes(bpy, args) = {})
               => cm_out'.status = "returned"
        /\ cm_out'.status = "returned" =>
               \A i \in 1..Len(bpy'.materials) :
                   (/\ IsDefaultMaterial(bpy'.materials[i])
                    /\ \A j \in 1..Len(bpy.materials) :
                          bpy.materials[j].id # bpy'.materials[i].id)
                   => MaterialUsers(bpy'.meshes, bpy'.materials[i].id) > 0
    ]_vars

\* the faces of the original a copy holds, as positions in the original, in
\* order: all of them while the copy is as copy_obj made it, the faces of its
\* group once remove_faces has worked on it
FacesKept(orig, sub) ==
    IF Len(sub.polys) = Len(orig.polys) THEN [k \in 1..Len(orig.polys) |-> k]
    ELSE FacesOfGroup(orig, PressedStates(sub.polys[1]))

C9_NothingDeleted ==
    [][Called =>
        /\ \A i \in 1..Len(bpy.materials) :
              \E j \in 1..Len(bpy'.materials) : bpy'.materials[j].id = bpy.materials[i].id
        /\ \A o \in SearchMeshes(bpy, args) :
              \A c \in {o} \cup CopiesOf(bpy, bpy', o) :
                  Len(bpy'.meshes[bpy'.objects[c].data].materials) >=
                      Len(bpy.meshes[bpy.objects[o].data].materials)
    ]_vars

(***************************************************************************)
(* _convert_material, called on its own: a root, one mesh object below it  *)
(* and the material to convert.                                            *)
(***************************************************************************)
\* every combination of the nine face buttons
AllTfModes ==
    [TEX : BOOLEAN, TILES : BOOLEAN, LIGHT : BOOLEAN, INVISIBLE : BOOLEAN,
     DYNAMIC : BOOLEAN, TWOSIDE : BOOLEAN, SHADOW : BOOLEAN, ALPHA : BOOLEAN,
     CLIP : BOOLEAN]

\* the arguments of one call: root_props are the game properties of the root
ConvArgs ==
    [is_cockpit : BOOLEAN, tf_modes : AllTfModes, mat : Range(SceneMaterials),
     root_props : {r.props : r \in SceneRoots}]

\* the host data of the call: the root, the search object below it, the material
ConvHost(a) ==
    [objects |-> <<[name |-> <<"root">>, type |-> "EMPTY", parent |-> None,
                    data |-> 0, props |-> a.root_props, layer_name |-> <<>>,
                    export_type |-> "aircraft"],
                   [name |-> <<"mesh_a">>, type |-> "MESH", parent |-> <<"root">>,
                    data |-> 0, props |-> {}, layer_name |-> <<>>,
                    export_type |-> "aircraft"]>>,
     meshes |-> <<>>,
     materials |-> <<a.mat>>,
     next_id |-> 4,
     logs |-> <<>>,
     exc |-> None]

\* what one call of _convert_material leaves: the returned material (None when
\* the call raised), the exception (None when it returned), the records logged
\* and the export type of the root
ConvResult(a) ==
    LET st == ConvertMaterial(ConvHost(a), 1, ConvHost(a).objects[2], a.is_cockpit,
                              a.tf_modes, a.mat)
    IN [status |-> IF st.exc = None THEN "returned" ELSE "raised",
        exception |-> st.exc,
        value |-> IF st.exc = None THEN st.materials[Len(st.materials)] ELSE None,
        logs |-> st.logs,
        export_type |-> st.objects[1].export_type]

ConvInit ==
    /\ conv_args \in ConvArgs
    /\ conv_out = NotCalled
    /\ transports = <<>>
    /\ messages = <<>>
    /\ calls = <<>>
    /\ lhs = None
    /\ rhs = None
    /\ include_data_model_version = FALSE
    /\ include_build_number = FALSE
    /\ cmp_out = NotCalled
    /\ tf_mesh = None
    /\ tf_out = NotCalled
    /\ bpy = None
    /\ args = None
    /\ cm_out = NotCalled
    /\ runs = 0
    /\ converted_objects = {}
    /\ scenes = <<>>
    /\ context_scene = 0
    /\ do_workflow_type = None
    /\ layer_props_calls = <<>>
    /\ do_out = NotCalled

\* the call _convert_material(scene, root_object, search_obj, is_cockpit, tf_modes,
\* mat); its records go through XPlaneLogger.log
CallConvertMaterial ==
    /\ conv_out = NotCalled
    /\ conv_out' = ConvResult(conv_args)
    /\ messages' = messages \o ConvResult(conv_args).logs
    /\ calls' = LastDispatch(transports, ConvResult(conv_args).logs, calls)
    /\ UNCHANGED <<conv_args, transports, cmpVars, tfVars, cmVars, doVars>>

ConvNext == CallConvertMaterial

SpecConv == ConvInit /\ [][ConvNext]_vars

\* the record of this message about the material was logged by the call
Logged(messageType, text) ==
    \E i \in 1..Len(conv_out.logs) :
        conv_out.logs[i] = [type |-> messageType,
                            message |-> conv_args.mat.name \o <<text>>,
                            context |-> None]

\* C13: for all 512 flag combinations and both values of is_cockpit, the new
\* material has draw = False if INVISIBLE is pressed and the source material's
\* draw otherwise; solid_camera is set to True (and logged) exactly when
\* INVISIBLE is not pressed, is_cockpit is false and DYNAMIC is not pressed, and
\* keeps the source's value otherwise; shadow_local equals not SHADOW; the
\* settings do not depend on TWOSIDE.
C13_VisibilityRules ==
    conv_out # NotCalled =>
        LET tf == conv_args.tf_modes
            src == conv_args.mat.xplane
            new == conv_out.value.xplane
            solid == ~tf.INVISIBLE /\ ~conv_args.is_cockpit /\ ~tf.DYNAMIC
            flipped == ConvResult([conv_args EXCEPT !.tf_modes.TWOSIDE = ~@])
        IN /\ conv_out.status = "returned"
           /\ new.draw = IF tf.INVISIBLE THEN FALSE ELSE src.draw
           /\ new.solid_camera = IF solid THEN TRUE ELSE src.solid_camera
           /\ Logged("info", ": Solid Camera=True") <=> solid
           /\ new.shadow_local = ~tf.SHADOW
           /\ flipped.value.xplane = new
           /\ flipped.value.look = conv_out.value.look
           /\ flipped.export_type = conv_out.export_type

(***************************************************************************)
(* do_249_conversion.  A scene is its debug setting and its objects (name  *)
(* and type); an object is referred to by its scene and its position in    *)
(* the scene.  The converters it calls are outside this module; of them    *)
(* only what do_249_conversion uses is modelled.                           *)
(***************************************************************************)
MaxScenes == 2

\* xplane_249_constants.WorkflowType, and a value that is none of its members
DoWorkflowTypes == WorkflowTypes \cup {"OTHER"}

\* the objects of a scene before the conversion
SceneObjectLists ==
    {<<>>,
     <<[name |-> <<"OBJ_a">>, type |-> "EMPTY"]>>,
     <<[name |-> <<"Armature">>, type |-> "ARMATURE"],
       [name |-> <<"Cube">>, type |-> "MESH"]>>,
     <<[name |-> <<"OBJ_a">>, type |-> "EMPTY"],
       [name |-> <<"Armature">>, type |-> "ARMATURE"],
       [name |-> <<"OBJ_b">>, type |-> "EMPTY"]>>}

DoScenes == [debug : {FALSE}, objects : SceneObjectLists]

\* "_{:02d}".format(i)
Format02 == <<"_01", "_02", "_03", "_04">>

\* xplane_249_workflow_converter.convert_workflow(scene, workflow_type): the scene
\* afterwards and the new roots, as positions in the scene's objects.  REGULAR
\* makes one new root for the scene, BULK takes the scene's empties as roots,
\* SKIP has no roots.
convert_workflow(scene, workflow_type) ==
    IF workflow_type = "REGULAR"
    THEN [scene |-> [scene EXCEPT !.objects =
                        Append(@, [name |-> <<"root">>, type |-> "EMPTY"])],
          new_roots |-> <<Len(scene.objects) + 1>>]
    ELSE IF workflow_type = "BULK"
    THEN [scene |-> scene,
          new_roots |-> SelectSeq([k \in 1..Len(scene.objects) |-> k],
                                  LAMBDA k : scene.objects[k].type = "EMPTY")]
    ELSE [scene |-> scene, new_roots |-> <<>>]

\* xplane_249_dataref_decoder.convert_armature_animations(scene, armature): the
\* objects it converted
convert_armature_animations(i, k) == {<<i, k>>}

\* the loop over the armatures of scene i that are not converted yet, from
\* position k; the _converted_objects afterwards
RECURSIVE ArmatureLoop(_, _, _, _)
ArmatureLoop(converted, scene, i, k) ==
    IF k > Len(scene.objects) THEN converted
    ELSE ArmatureLoop(IF <<i, k>> \notin converted /\ scene.objects[k].type = "ARMATURE"
                      THEN converted \cup convert_armature_animations(i, k)
                      ELSE converted,
                      scene, i, k + 1)

LayerPropsBranch_BulkPass(workflow_type) ==
    IF workflow_type \in {"SKIP", "BULK"} THEN "pass"
    ELSE IF workflow_type = "REGULAR" THEN "call"
    ELSE "assert"

\* the branch of the layer properties section
LayerPropsBranch(workflow_type) ==
    IF workflow_type = "SKIP" THEN "pass"
    ELSE IF workflow_type = "REGULAR" \/ workflow_type = "BULK" THEN "call"
    ELSE "assert"

\* one pass of the loop over bpy.data.scenes, for the i-th scene; d holds the
\* scenes, the context's scene, _converted_objects, the calls of
\* do_convert_layer_properties made and the exception that ended the call
DoScene(d, i, workflow_type) ==
    LET debugged == [d.scenes[i] EXCEPT !.debug = TRUE]
        cw == convert_workflow(debugged, workflow_type)
        new_roots == cw.new_roots
        renamed == IF workflow_type = "REGULAR"
                   THEN [cw.scene EXCEPT !.objects[new_roots[1]].name =
                                            @ \o <<Format02[i]>>]
                   ELSE cw.scene
        d1 == [d EXCEPT !.context_scene = i,
                        !.scenes[i] = renamed,
                        !.converted_objects = ArmatureLoop(@, renamed, i, 1)]
        branch == LayerPropsBranch(workflow_type)
    IN IF branch = "pass" THEN d1
       ELSE IF branch = "call"
       THEN [d1 EXCEPT !.layer_props_calls =
                          Append(@, [scene |-> i, workflow_type |-> workflow_type,
                                     new_roots |-> new_roots])]
       ELSE [d1 EXCEPT !.exc = "AssertionError: Unknown workflow type"]

\* for i, scene in enumerate(bpy.data.scenes, start=1), from i
RECURSIVE DoSceneLoop(_, _, _)
DoSceneLoop(d, i, workflow_type) ==
    IF i > Len(d.scenes) \/ d.exc # None THEN d
    ELSE DoSceneLoop(DoScene(d, i, workflow_type), i + 1, workflow_type)

\* do_249_conversion(context, workflow_type)
do_249_conversion(workflow_type) ==
    IF runs > 0
    THEN /\ do_out' = Returned(None)
         /\ layer_props_calls' = <<>>
         /\ UNCHANGED <<runs, converted_objects, scenes, context_scene>>
    ELSE LET d == DoSceneLoop([scenes |-> scenes, context_scene |-> context_scene,
                               converted_objects |-> converted_objects,
                               layer_props_calls |-> <<>>, exc |-> None],
                              1, workflow_type)
         IN /\ runs' = runs + 1
            /\ scenes' = d.scenes
            /\ context_scene' = d.context_scene
            /\ converted_objects' = d.converted_objects
            /\ layer_props_calls' = d.layer_props_calls
            /\ do_out' = IF d.exc = None THEN Returned(None) ELSE Raised(d.exc)

DoInit ==
    /\ runs = 0
    /\ converted_objects = {}
    /\ \E n \in 1..MaxScenes : scenes \in [1..n -> DoScenes]
    /\ context_scene = 1
    /\ do_workflow_type = None
    /\ layer_props_calls = <<>>
    /\ do_out = NotCalled
    /\ transports = <<>>
    /\ messages = <<>>
    /\ calls = <<>>
    /\ lhs = None
    /\ rhs = None
    /\ include_data_model_version = FALSE
    /\ include_build_number = FALSE
    /\ cmp_out = NotCalled
    /\ tf_mesh = None
    /\ tf_out = NotCalled
    /\ bpy = None
    /\ args = None
    /\ cm_out = NotCalled
    /\ conv_args = None
    /\ conv_out = NotCalled

\* a call of do_249_conversion
CallDo249Conversion ==
    \E workflow_type \in DoWorkflowTypes :
        /\ do_workflow_type' = workflow_type
        /\ do_249_conversion(workflow_type)
        /\ UNCHANGED <<loggerVars, cmpVars, tfVars, cmVars, convVars>>

DoNext == CallDo249Conversion

SpecDo == DoInit /\ [][DoNext]_vars

\* the step of the call that executes: the first one
Executed == runs = 0 /\ runs' = 1

\* the positions of the objects of a scene that are its new roots: for REGULAR
\* the one object the scene gained, for BULK its empties
NewRoots(before, after, workflow_type) ==
    IF workflow_type = "REGULAR"
    THEN SelectSeq([k \in 1..Len(after.objects) |-> k],
                   LAMBDA k : k > Len(before.objects))
    ELSE SelectSeq([k \in 1..Len(after.objects) |-> k],
                   LAMBDA k : after.objects[k].type = "EMPTY")

\* C11: in the run that executes, for every scene do_convert_layer_properties is
\* called exactly once, with that scene, the workflow type and that scene's new
\* roots, when the workflow type is REGULAR or BULK; it is never called when the
\* workflow type is SKIP; any other workflow type ends in the 'Unknown workflow
\* type' assertion failure.
C11_WorkflowSelectsLayerProps ==
    [][ Executed =>
          LET wt == do_workflow_type'
          IN /\ wt \in {"REGULAR", "BULK"} =>
                   /\ do_out'.status = "returned"
                   /\ \A i \in 1..Len(scenes) :
                         /\ Cardinality({n \in 1..Len(layer_props_calls') :
                                            layer_props_calls'[n].scene = i}) = 1
                         /\ \E n \in 1..Len(layer_props_calls') :
                               layer_props_calls'[n] =
                                   [scene |-> i, workflow_type |-> wt,
                                    new_roots |-> NewRoots(scenes[i], scenes'[i], wt)]
                   /\ \A n \in 1..Len(layer_props_calls') :
                         layer_props_calls'[n].scene \in 1..Len(scenes)
             /\ wt = "SKIP" =>
                   /\ do_out'.status = "returned"
                   /\ layer_props_calls' = <<>>
             /\ wt \notin {"REGULAR", "BULK", "SKIP"} =>
                   /\ do_out' = Raised("AssertionError: Unknown workflow type")
                   /\ layer_props_calls' = <<>> ]_vars

\* a BULK run over two scenes: the first has two empties, the second none; one
\* call for each scene, with two roots and with none
C11_Witness ==
    /\ runs = 1
    /\ do_workflow_type = "BULK"
    /\ do_out.status = "returned"
    /\ Len(scenes) = 2
    /\ Len(layer_props_calls) = 2
    /\ layer_props_calls[1] = [scene |-> 1, workflow_type |-> "BULK", new_roots |-> <<1, 3>>]
    /\ layer_props_calls[2] = [scene |-> 2, workflow_type |-> "BULK", new_roots |-> <<>>]

====
